---- MODULE Spec2Model ----
(***************************************************************************)
(* rviz OdometryDisplay (src/default_plugin/odometry_display.cpp).         *)
(*                                                                         *)
(* The display subscribes to an odometry topic, drops messages that are    *)
(* close to the last used one, asks tf to express the pose in the fixed    *)
(* frame, creates one arrow per used message and keeps the arrows in a     *)
(* deque that update() trims to keep_ entries.                             *)
(*                                                                         *)
(* Lengths are integers on a grid; a float comparison  |v| < tol  is       *)
(* decided exactly on that grid (see LengthLess).                          *)
(***************************************************************************)
EXTENDS Integers, Sequences, FiniteSets

VARIABLES
    enabled_,             \* Display::isEnabled()
    topic_,               \* std::string topic_
    sub_,                 \* the topics sub_ is subscribed to: {} or {t}
    color_,               \* Color color_
    keep_,                \* uint32_t keep_
    position_tolerance_,  \* float position_tolerance_
    angle_tolerance_,     \* float angle_tolerance_
    fixed_frame_,         \* std::string fixed_frame_
    visible_,             \* scene_node_ visibility
    arrows_,              \* D_Arrow arrows_: deque of arrows, front = oldest
    last_used_message_,   \* shared pointer: <<>> (null) or <<message>>
    live,                 \* arrows allocated with new and not yet deleted
    alive,                \* the display has not been destructed
    in_flight,            \* a message has left the subscription and its
                          \* callback has not run yet
    appended,             \* arrows pushed to arrows_ since the last clear()
    evicted,              \* arrows popped by update() since the last clear()
    call                  \* what the handler that ran last emitted

vars == <<enabled_, topic_, sub_, color_, keep_, position_tolerance_,
          angle_tolerance_, fixed_frame_, visible_, arrows_,
          last_used_message_, live, alive, in_flight, appended, evicted,
          call>>

config == <<topic_, color_, keep_, position_tolerance_, angle_tolerance_>>

history == <<appended, evicted>>

----------------------------------------------------------------------------
(* Bounds and input domains *)

\* arrows created between two clear() calls
MaxAccepted == 3

\* keep_(100) in the constructor
DefaultKeep == 100

\* position_tolerance_(0.1), angle_tolerance_(0.1): 0.1 is 2 grid units
DefaultTolerance == 2

\* color_(1.0f, 0.1f, 0.0f)
DefaultColor == "orange"

Topics == {"", "/odom"}

Colors == {DefaultColor, "blue"}

Keeps == {0, 1, 2, DefaultKeep}

PositionTolerances == {DefaultTolerance, 3}

AngleTolerances == {DefaultTolerance, 3}

FixedFrames == {"/map", "/odom"}

\* header.frame_id of a message; "" is the unset identifier
MessageFrames == {"", "/odom"}

\* pose.pose.position (x, y, z)
Here == <<0, 0, 0>>
There == <<2, 0, 0>>

\* pose.pose.orientation (w, x, y, z); Flipped is Straight with every
\* component negated, the same rotation
Straight == <<1, 0, 0, 0>>
Flipped == <<-1, 0, 0, 0>>

Poses == {<<Here, Straight>>, <<There, Straight>>, <<Here, Flipped>>}

Messages == {[frame_id |-> f, position |-> p[1], orientation |-> p[2]] :
             f \in MessageFrames, p \in Poses}

----------------------------------------------------------------------------
(* Vector arithmetic of the tolerance test *)

RECURSIVE SumSq(_)
SumSq(v) == IF v = <<>> THEN 0 ELSE Head(v) * Head(v) + SumSq(Tail(v))

Diff(u, v) == [i \in DOMAIN u |-> u[i] - v[i]]

\* sqrt(sumsq) < tol, for a float tol of either sign
LengthLess(sumsq, tol) == tol > 0 /\ sumsq < tol * tol

----------------------------------------------------------------------------
(* Helpers of the handlers *)

\* what one handler call emits, before the handler fills it in:
\*   tf        "none": processMessage() did not run; "skipped": it returned
\*             before transformArrow(); "ok" / "failed": transformPose()
\*   errors    the ROS_ERROR lines logged
\*   renders   the causeRender() calls, each with the number of arrows in
\*             arrows_ when it was made
\*   placed    the pose handed to the new arrow, and the frame it is in
\*   destroyed the arrows deleted, in order
Emitted == [tf |-> "none", errors |-> <<>>, renders |-> <<>>, placed |-> <<>>,
            destroyed |-> <<>>]

\* subscribe() without the isEnabled() test
SubscribeAlways(isEnabled, topic, s) == {topic}

\* subscribe(): sub_ after the call, given sub_ before it
Subscribe(isEnabled, topic, s) == IF ~isEnabled THEN s ELSE {topic}

\* unsubscribe()
Unsubscribe == {}

\* a loop over arrows_ that stops before the newest arrow
DeleteAllButNewest(buf) == [i \in 1..(Len(buf) - 1) |-> buf[i].id]

\* clear(), the loop over arrows_: the handles deleted, front to back
DeleteAll(buf) == [i \in 1..Len(buf) |-> buf[i].id]

Range(f) == {f[i] : i \in DOMAIN f}

\* clear() without the reset of last_used_message_
ClearKeepsLastMessage ==
    /\ arrows_' = <<>>
    /\ live' = live \ Range(DeleteAll(arrows_))
    /\ last_used_message_' = last_used_message_
    /\ appended' = 0
    /\ evicted' = 0

\* clear()
Clear ==
    /\ arrows_' = <<>>
    /\ live' = live \ Range(DeleteAll(arrows_))
    /\ last_used_message_' = <<>>
    /\ appended' = 0
    /\ evicted' = 0

\* update() with an if in the place of the while
TrimFrontOnce(buf, k) ==
    IF Len(buf) > k
    THEN [arrows |-> Tail(buf), destroyed |-> <<Head(buf).id>>]
    ELSE [arrows |-> buf, destroyed |-> <<>>]

\* update() with back() and pop_back() in the place of front() and pop_front()
RECURSIVE TrimBack(_, _)
TrimBack(buf, k) ==
    IF Len(buf) > k
    THEN LET rest == TrimBack(SubSeq(buf, 1, Len(buf) - 1), k)
         IN  [arrows |-> rest.arrows,
              destroyed |-> <<buf[Len(buf)].id>> \o rest.destroyed]
    ELSE [arrows |-> buf, destroyed |-> <<>>]

\* update() with >= in the place of > in the loop condition
RECURSIVE TrimFrontBelow(_, _)
TrimFrontBelow(buf, k) ==
    IF Len(buf) >= k /\ buf # <<>>
    THEN LET rest == TrimFrontBelow(Tail(buf), k)
         IN  [arrows |-> rest.arrows,
              destroyed |-> <<Head(buf).id>> \o rest.destroyed]
    ELSE [arrows |-> buf, destroyed |-> <<>>]

\* update(), the while loop: pops the front while the deque is longer than k
RECURSIVE TrimFront(_, _)
TrimFront(buf, k) ==
    IF Len(buf) > k
    THEN LET rest == TrimFront(Tail(buf), k)
         IN  [arrows |-> rest.arrows,
              destroyed |-> <<Head(buf).id>> \o rest.destroyed]
    ELSE [arrows |-> buf, destroyed |-> <<>>]

\* the tolerance test with || in the place of &&
TooCloseEither(last, message) ==
    /\ last # <<>>
    /\ \/ LengthLess(SumSq(Diff(last[1].position, message.position)),
                     position_tolerance_)
       \/ LengthLess(SumSq(Diff(last[1].orientation, message.orientation)),
                     angle_tolerance_)

\* the tolerance test of processMessage(): Vector3::length() of the position
\* difference and the value Quaternion::normalise() returns for the
\* orientation difference, its length, each compared with its tolerance
TooClose(last, message) ==
    /\ last # <<>>
    /\ LengthLess(SumSq(Diff(last[1].position, message.position)),
                  position_tolerance_)
    /\ LengthLess(SumSq(Diff(last[1].orientation, message.orientation)),
                  angle_tolerance_)

\* tf's transformPose(target, pose in source): the frames are the same, or
\* tf can connect them at the message's stamp
CanTransform(target, source, connected) == source = target \/ connected

\* transformArrow() that hands the header's frame_id to tf as it came
TransformArrowAsSent(message, connected) ==
    LET ok == CanTransform(fixed_frame_, message.frame_id, connected)
    IN  [placed |-> [position |-> message.position,
                     orientation |-> message.orientation,
                     frame |-> IF ok THEN fixed_frame_ ELSE message.frame_id],
         tf |-> IF ok THEN "ok" ELSE "failed",
         errors |-> IF ok THEN <<>>
                    ELSE <<[from |-> message.frame_id, to |-> fixed_frame_]>>]

\* transformArrow(): the pose the arrow is placed at, the frame that pose is
\* expressed in, and the errors logged.  A pose that tf could not transform
\* stays as it was built, in its source frame, and the arrow is placed at it.
TransformArrow(message, connected) ==
    LET frame_id == IF message.frame_id = "" THEN fixed_frame_
                    ELSE message.frame_id
        ok == CanTransform(fixed_frame_, frame_id, connected)
    IN  [placed |-> [position |-> message.position,
                     orientation |-> message.orientation,
                     frame |-> IF ok THEN fixed_frame_ ELSE frame_id],
         tf |-> IF ok THEN "ok" ELSE "failed",
         errors |-> IF ok THEN <<>>
                    ELSE <<[from |-> message.frame_id, to |-> fixed_frame_]>>]

\* new ogre_tools::Arrow: handles are numbered in creation order
NewArrow == appended + 1

\* processMessage() that trims arrows_ to keep_ right after push_back()
ProcessMessageTrimming(message, connected) ==
    IF TooClose(last_used_message_, message)
    THEN [arrows |-> arrows_, last |-> last_used_message_, created |-> {},
          tf |-> "skipped", errors |-> <<>>, placed |-> <<>>]
    ELSE LET done == TransformArrow(message, connected)
             arrow == [id |-> NewArrow, color |-> color_, alpha |-> 1]
             pushed == Append(arrows_, arrow)
         IN  [arrows |-> IF keep_ > 0 THEN TrimFront(pushed, keep_).arrows
                         ELSE pushed,
              last |-> <<message>>,
              created |-> {arrow.id}, tf |-> done.tf, errors |-> done.errors,
              placed |-> <<done.placed>>]

\* processMessage()
ProcessMessage(message, connected) ==
    IF TooClose(last_used_message_, message)
    THEN [arrows |-> arrows_, last |-> last_used_message_, created |-> {},
          tf |-> "skipped", errors |-> <<>>, placed |-> <<>>]
    ELSE LET done == TransformArrow(message, connected)
             arrow == [id |-> NewArrow, color |-> color_, alpha |-> 1]
         IN  [arrows |-> Append(arrows_, arrow), last |-> <<message>>,
              created |-> {arrow.id}, tf |-> done.tf, errors |-> done.errors,
              placed |-> <<done.placed>>]

----------------------------------------------------------------------------
(* State after construction: the display is disabled and unsubscribed, and
   the host has given it its fixed frame. *)

Init ==
    /\ enabled_ = FALSE
    /\ topic_ = ""
    /\ sub_ = {}
    /\ color_ = DefaultColor
    /\ keep_ = DefaultKeep
    /\ position_tolerance_ = DefaultTolerance
    /\ angle_tolerance_ = DefaultTolerance
    /\ fixed_frame_ \in FixedFrames
    /\ visible_ = TRUE
    /\ arrows_ = <<>>
    /\ last_used_message_ = <<>>
    /\ live = {}
    /\ alive = TRUE
    /\ in_flight = FALSE
    /\ appended = 0
    /\ evicted = 0
    /\ call = Emitted

----------------------------------------------------------------------------
(* Handlers *)

\* a member function is called on a display that has not been destructed;
\* the call leaves a dispatched message where it is
Member == alive /\ UNCHANGED <<alive, in_flight>>

\* setTopic() that calls clear() between unsubscribe() and subscribe()
setTopicClears(topic) ==
    /\ Member
    /\ topic_' = topic
    /\ UNCHANGED enabled_
    /\ sub_' = Subscribe(enabled_, topic, Unsubscribe)
    /\ Clear
    /\ call' = [Emitted EXCEPT !.renders = <<0>>,
                               !.destroyed = DeleteAll(arrows_)]
    /\ UNCHANGED <<color_, keep_, position_tolerance_, angle_tolerance_,
                   fixed_frame_, visible_>>

setTopic(topic) ==
    /\ Member
    /\ topic_' = topic
    /\ UNCHANGED enabled_
    /\ sub_' = Subscribe(enabled_, topic, Unsubscribe)
    /\ call' = [Emitted EXCEPT !.renders = <<Len(arrows_)>>]
    /\ UNCHANGED <<color_, keep_, position_tolerance_, angle_tolerance_,
                   fixed_frame_, visible_, arrows_, last_used_message_, live,
                   history>>

\* a loop that stops before the oldest arrow
RecolorNewer(buf, color) ==
    [i \in 1..Len(buf) |->
        IF i = 1 THEN buf[i] ELSE [buf[i] EXCEPT !.color = color, !.alpha = 1]]

\* setColor(), the loop over arrows_
Recolor(buf, color) ==
    [i \in 1..Len(buf) |-> [buf[i] EXCEPT !.color = color, !.alpha = 1]]

setColor(color) ==
    /\ Member
    /\ color_' = color
    /\ arrows_' = Recolor(arrows_, color)
    /\ call' = [Emitted EXCEPT !.renders = <<Len(arrows_)>>]
    /\ UNCHANGED <<enabled_, topic_, sub_, keep_, position_tolerance_,
                   angle_tolerance_, fixed_frame_, visible_,
                   last_used_message_, live, history>>

\* setKeep() that trims arrows_ to the new capacity at once
KeepArrowsTrimmed(buf, keep) ==
    IF keep > 0 THEN TrimFront(buf, keep).arrows ELSE buf

\* setKeep(): arrows_ after the call
KeepArrows(buf, keep) == buf

setKeep(keep) ==
    /\ Member
    /\ keep_' = keep
    /\ arrows_' = KeepArrows(arrows_, keep)
    /\ call' = Emitted
    /\ UNCHANGED <<enabled_, topic_, sub_, color_, position_tolerance_,
                   angle_tolerance_, fixed_frame_, visible_,
                   last_used_message_, live, history>>

setPositionTolerance(tol) ==
    /\ Member
    /\ position_tolerance_' = tol
    /\ call' = Emitted
    /\ UNCHANGED <<enabled_, topic_, sub_, color_, keep_, angle_tolerance_,
                   fixed_frame_, visible_, arrows_, last_used_message_, live,
                   history>>

setAngleTolerance(tol) ==
    /\ Member
    /\ angle_tolerance_' = tol
    /\ call' = Emitted
    /\ UNCHANGED <<enabled_, topic_, sub_, color_, keep_,
                   position_tolerance_, fixed_frame_, visible_, arrows_,
                   last_used_message_, live, history>>

\* onEnable()
onEnable ==
    /\ visible_' = TRUE
    /\ UNCHANGED topic_
    /\ sub_' = Subscribe(enabled_', topic_, sub_)
    /\ UNCHANGED <<arrows_, last_used_message_, live, history>>
    /\ call' = Emitted

\* onDisable() without the clear()
onDisableKeepsArrows ==
    /\ sub_' = Unsubscribe
    /\ visible_' = FALSE
    /\ call' = Emitted
    /\ UNCHANGED <<arrows_, last_used_message_, live, history>>

\* onDisable()
onDisable ==
    /\ sub_' = Unsubscribe
    /\ Clear
    /\ visible_' = FALSE
    /\ call' = [Emitted
                  EXCEPT !.destroyed = DeleteAll(arrows_)]

\* Display::enable(): the host marks the display enabled and calls onEnable()
enable ==
    /\ Member
    /\ enabled_' = TRUE
    /\ onEnable
    /\ UNCHANGED <<color_, keep_, position_tolerance_, angle_tolerance_,
                   fixed_frame_>>

\* Display::disable(): the host marks the display disabled and calls
\* onDisable()
disable ==
    /\ Member
    /\ enabled_' = FALSE
    /\ onDisable
    /\ UNCHANGED <<config, fixed_frame_>>

\* Display::setFixedFrame() stores the frame and calls fixedFrameChanged()
fixedFrameChanged(frame) ==
    /\ Member
    /\ fixed_frame_' = frame
    /\ Clear
    /\ call' = [Emitted
                  EXCEPT !.destroyed = DeleteAll(arrows_)]
    /\ UNCHANGED <<enabled_, sub_, config, visible_>>

reset ==
    /\ Member
    /\ Clear
    /\ call' = [Emitted EXCEPT !.destroyed = DeleteAll(arrows_)]
    /\ UNCHANGED <<enabled_, sub_, config, fixed_frame_, visible_>>

\* update() without the test of keep_ > 0
updateUnguarded ==
    LET trimmed == TrimFront(arrows_, keep_)
    IN  /\ Member
        /\ arrows_' = trimmed.arrows
        /\ live' = live \ Range(trimmed.destroyed)
        /\ evicted' = evicted + Len(trimmed.destroyed)
        /\ call' = [Emitted EXCEPT !.destroyed = trimmed.destroyed]
        /\ UNCHANGED <<enabled_, sub_, config, fixed_frame_, visible_,
                       last_used_message_, appended>>

update ==
    LET trimmed == IF keep_ > 0 THEN TrimFront(arrows_, keep_)
                   ELSE [arrows |-> arrows_, destroyed |-> <<>>]
    IN  /\ Member
        /\ arrows_' = trimmed.arrows
        /\ live' = live \ Range(trimmed.destroyed)
        /\ evicted' = evicted + Len(trimmed.destroyed)
        /\ call' = [Emitted EXCEPT !.destroyed = trimmed.destroyed]
        /\ UNCHANGED <<enabled_, sub_, config, fixed_frame_, visible_,
                       last_used_message_, appended>>

\* incomingMessage() that calls causeRender() before processMessage()
incomingMessageRenderFirst(message, connected) ==
    LET done == ProcessMessage(message, connected)
    IN  /\ alive /\ UNCHANGED alive
        /\ \/ sub_ # {} /\ ~in_flight /\ UNCHANGED in_flight
           \/ in_flight /\ in_flight' = FALSE
        /\ done.created = {} \/ appended < MaxAccepted
        /\ arrows_' = done.arrows
        /\ last_used_message_' = done.last
        /\ live' = live \cup done.created
        /\ appended' = appended + Cardinality(done.created)
        /\ call' = [Emitted
                      EXCEPT !.tf = done.tf,
                             !.errors = done.errors, !.placed = done.placed,
                             !.renders = <<Len(arrows_)>>]
        /\ UNCHANGED <<enabled_, sub_, config, fixed_frame_, visible_,
                       evicted>>

\* incomingMessage(): the callback of a message, the one that was
\* dispatched earlier if there is one, or else one that sub_ hands over
\* while it is subscribed
incomingMessage(message, connected) ==
    LET done == ProcessMessage(message, connected)
    IN  /\ alive /\ UNCHANGED alive
        /\ \/ sub_ # {} /\ ~in_flight /\ UNCHANGED in_flight
           \/ in_flight /\ in_flight' = FALSE
        /\ done.created = {} \/ appended < MaxAccepted
        /\ arrows_' = done.arrows
        /\ last_used_message_' = done.last
        /\ live' = live \cup done.created
        /\ appended' = appended + Cardinality(done.created)
        /\ call' = [Emitted
                      EXCEPT !.tf = done.tf,
                             !.errors = done.errors, !.placed = done.placed,
                             !.renders = <<Len(done.arrows)>>]
        /\ UNCHANGED <<enabled_, sub_, config, fixed_frame_, visible_,
                       evicted>>

\* a destructor that unsubscribes and leaves arrows_ to the implicit
\* destruction of the members
destructorUnsubscribesOnly ==
    /\ alive
    /\ alive' = FALSE
    /\ sub_' = Unsubscribe
    /\ arrows_' = <<>>
    /\ last_used_message_' = <<>>
    /\ call' = Emitted
    /\ UNCHANGED <<enabled_, config, fixed_frame_, visible_, in_flight, live,
                   history>>

\* ~OdometryDisplay()
destructor ==
    /\ alive
    /\ alive' = FALSE
    /\ sub_' = Unsubscribe
    /\ Clear
    /\ call' = [Emitted EXCEPT !.destroyed = DeleteAll(arrows_)]
    /\ UNCHANGED <<enabled_, config, fixed_frame_, visible_, in_flight>>

Next ==
    \/ \E topic \in Topics : setTopic(topic)
    \/ \E color \in Colors : setColor(color)
    \/ \E keep \in Keeps : setKeep(keep)
    \/ \E tol \in PositionTolerances : setPositionTolerance(tol)
    \/ \E tol \in AngleTolerances : setAngleTolerance(tol)
    \/ enable
    \/ disable
    \/ \E frame \in FixedFrames : fixedFrameChanged(frame)
    \/ reset
    \/ update
    \/ \E message \in Messages, connected \in BOOLEAN :
          incomingMessage(message, connected)
    \/ destructor

\* no message is ever dispatched: every message is handed to
\* incomingMessage() while sub_ is subscribed
Spec == Init /\ [][Next]_vars

\* the transport takes a message off the subscription; its callback runs
\* later, whatever sub_ is by then
dispatch ==
    /\ alive /\ sub_ # {} /\ ~in_flight
    /\ in_flight' = TRUE
    /\ UNCHANGED <<enabled_, sub_, config, fixed_frame_, visible_, arrows_,
                   last_used_message_, live, alive, history, call>>

NextInFlight == Next \/ dispatch

\* a message may be handed to incomingMessage() after sub_ was unsubscribed
SpecInFlight == Init /\ [][NextInFlight]_vars

----------------------------------------------------------------------------
(* Properties *)

Min(a, b) == IF a < b THEN a ELSE b

Handles(buf) == [i \in 1..Len(buf) |-> buf[i].id]

IsPrefix(s, t) == Len(s) <= Len(t) /\ SubSeq(t, 1, Len(s)) = s

Bounded == keep_ > 0 => Len(arrows_) <= keep_

\* a step of incomingMessage(); every such step emits the outcome of
\* processMessage(), which is tested first
Delivered(message, connected) ==
    call'.tf # "none" /\ incomingMessage(message, connected)

\* a step of clear() through one of its callers
Cleared ==
    \/ reset \/ disable \/ destructor
    \/ \E frame \in FixedFrames : fixedFrameChanged(frame)

\* C1: when transformPose() fails for a message that passed the tolerance
\* test, the call creates no arrow, leaves last_used_message_ as it was and
\* logs exactly one error.
C1_TransformFailureAborts ==
    [][\A message \in Messages, connected \in BOOLEAN :
          (call'.tf = "failed" /\ Delivered(message, connected))
          => /\ Len(arrows_') = Len(arrows_)
             /\ last_used_message_' = last_used_message_
             /\ Len(call'.errors) = 1]_vars

\* C2: in the state right after any update() with keep_ > 0, arrows_ holds
\* at most keep_ arrows.
C2_UpdateBoundsBuffer ==
    [][update => (keep_' > 0 => Len(arrows_') <= keep_')]_vars

\* an update() has just trimmed the deque down to keep_
C2_Witness ==
    keep_ > 0 /\ call.destroyed # <<>> /\ Len(arrows_) = keep_

\* C3, as claimed: in every reachable state with keep_ > 0, arrows_ holds at
\* most keep_ arrows.
C3_AlwaysBounded == Bounded

\* C3, amended: the bound holds right after update(); incomingMessage() and
\* setKeep() remove nothing, and they are the only handlers a step of which
\* takes a bounded deque over the bound.
C3_BoundedAfterUpdateOnly ==
    [][/\ update => Bounded'
       /\ ~IsPrefix(arrows_, arrows_')
          => ~\E message \in Messages, connected \in BOOLEAN :
                 Delivered(message, connected)
       /\ \A keep \in Keeps : setKeep(keep) => arrows_' = arrows_
       /\ (Bounded /\ ~Bounded')
          => \/ \E message \in Messages, connected \in BOOLEAN :
                   Delivered(message, connected)
             \/ \E keep \in Keeps : setKeep(keep)]_vars

\* a message has just been appended and the deque is over the bound
C3_Witness ==
    keep_ > 0 /\ Len(arrows_) > keep_ /\ call.tf = "ok"

\* C4: a message is dropped (no arrow, last_used_message_ as it was) exactly
\* when there is a last used message and both the position delta and the
\* orientation delta to it are below their tolerances; every other message
\* gets an arrow and becomes the last used message.
C4_FilteredIffBothClose ==
    [][\A message \in Messages, connected \in BOOLEAN :
          Delivered(message, connected)
          => LET last == last_used_message_
                 d2 == SumSq(Diff(last[1].position, message.position))
                 a2 == SumSq(Diff(last[1].orientation, message.orientation))
                 close == /\ last # <<>>
                          /\ position_tolerance_ > 0
                          /\ d2 < position_tolerance_ * position_tolerance_
                          /\ angle_tolerance_ > 0
                          /\ a2 < angle_tolerance_ * angle_tolerance_
             IN  IF close
                 THEN arrows_' = arrows_ /\ last_used_message_' = last
                 ELSE /\ Len(arrows_') = Len(arrows_) + 1
                      /\ last_used_message_' = <<message>>]_vars

\* a message has just been dropped by the tolerance test
C4_Witness ==
    call.tf = "skipped" /\ last_used_message_ # <<>> /\ arrows_ # <<>>

\* C5: update() with keep_ = k > 0 on n arrows leaves the min(n, k) newest
\* in arrival order and deletes the other n - min(n, k), oldest first.
C5_UpdateKeepsNewest ==
    [][(update /\ keep_ > 0)
       => LET n == Len(arrows_)
              r == Min(n, keep_)
          IN  /\ arrows_' = SubSeq(arrows_, n - r + 1, n)
              /\ call'.destroyed = Handles(SubSeq(arrows_, 1, n - r))]_vars

\* an update() has just deleted arrows and left two or more behind
C5_Witness ==
    keep_ > 0 /\ call.destroyed # <<>> /\ Len(arrows_) >= 2

\* C6: while keep_ = 0 the length of arrows_ counts the messages accepted
\* since the last clear(): it is 0 after a clear(), grows by one with each
\* message that was neither dropped by the tolerance test nor failed its
\* transform, and no other step changes it.
C6_LengthCountsAccepted ==
    [][(keep_ = 0 /\ keep_' = 0)
       => LET accepted == /\ call'.tf = "ok"
                          /\ \E message \in Messages, connected \in BOOLEAN :
                                Delivered(message, connected)
          IN  Len(arrows_') = IF Cleared THEN 0
                              ELSE IF accepted THEN Len(arrows_) + 1
                              ELSE Len(arrows_)]_vars

\* C7: disable() deletes every arrow, resets last_used_message_ and leaves
\* sub_ unsubscribed; enable() from a disabled display ends with no arrows,
\* no last used message and sub_ subscribed to topic_.
C7_DisableThenEnable ==
    [][/\ disable
          => /\ arrows_' = <<>>
             /\ last_used_message_' = <<>>
             /\ live' = {}
             /\ call'.destroyed = Handles(arrows_)
             /\ sub_' = {}
       /\ (~enabled_ /\ enable)
          => /\ arrows_' = <<>>
             /\ last_used_message_' = <<>>
             /\ sub_' = {topic_'}]_vars

\* a disable() has just deleted the arrows of an enabled display
C7_Witness ==
    ~enabled_ /\ sub_ = {} /\ arrows_ = <<>> /\ call.destroyed # <<>>

\* C8: fixedFrameChanged() and reset() end with no arrows and no last used
\* message and change neither the enabled state, the subscription nor the
\* configuration; a message that arrives while arrows_ is empty, as it is
\* after either call, is never dropped.
C8_FrameChangeAndResetClear ==
    [][/\ (reset \/ \E frame \in FixedFrames : fixedFrameChanged(frame))
          => /\ arrows_' = <<>>
             /\ last_used_message_' = <<>>
             /\ UNCHANGED <<enabled_, sub_, config>>
       /\ \A message \in Messages, connected \in BOOLEAN :
             (arrows_ = <<>> /\ Delivered(message, connected))
             => Len(arrows_') = 1 /\ last_used_message_' = <<message>>]_vars

\* reset() or fixedFrameChanged() has just deleted the arrows of an enabled
\* display
C8_Witness ==
    /\ enabled_ /\ sub_ # {}
    /\ arrows_ = <<>> /\ last_used_message_ = <<>>
    /\ call.destroyed # <<>>

\* C9: until it is destructed, sub_ is subscribed exactly when the display
\* is enabled, and then to topic_ and to nothing else.
C9_SubscribedIffEnabled ==
    /\ alive => (enabled_ <=> sub_ # {})
    /\ sub_ # {} => sub_ = {topic_}

\* a topic was stored while disabled, or after it the display was disabled,
\* and sub_ is unsubscribed
C9_Witness ==
    alive /\ ~enabled_ /\ topic_ = "/odom" /\ sub_ = {} /\ call.renders # <<>>

\* C10: setKeep(n) stores n and leaves arrows_ as it was, also when n > 0 is
\* below the length of arrows_; a step that removes some but not all arrows
\* is an update().
C10_SetKeepDoesNotTrim ==
    [][/\ \A keep \in Keeps :
             setKeep(keep)
             => keep_' = keep /\ arrows_' = arrows_ /\ live' = live
       /\ (arrows_' # <<>> /\ Len(arrows_') < Len(arrows_)) => update]_vars

\* more arrows than keep_ allows, after a handler that emits nothing
C10_Witness ==
    keep_ > 0 /\ Len(arrows_) > keep_ + 1 /\ call = Emitted

\* C11: every arrow of arrows_ has the color color_ at alpha 1: setColor()
\* recolors all of them, and processMessage() gives a new arrow the color_
\* of that moment.
C11_ArrowsCarryColor ==
    \A i \in 1..Len(arrows_) :
        arrows_[i].color = color_ /\ arrows_[i].alpha = 1

\* setColor() has just recolored two or more arrows that were created in
\* the default color
C11_Witness ==
    /\ Len(arrows_) >= 2 /\ color_ # DefaultColor
    /\ call.renders # <<>> /\ call.tf = "none"
    /\ sub_ # {} /\ topic_ = ""
\* C12: the destructor, run on an enabled or a disabled display, leaves
\* sub_ unsubscribed and deletes every arrow that was created and not yet
\* deleted, so that none is left allocated.
C12_DestructorReleasesAll ==
    [][destructor
       => /\ sub_' = {}
          /\ call'.destroyed = Handles(arrows_)
          /\ Range(call'.destroyed) = live
          /\ live' = {} /\ arrows_' = <<>>]_vars

\* an enabled display that held arrows has been destructed
C12_Witness ==
    ~alive /\ enabled_ /\ sub_ = {} /\ live = {} /\ call.destroyed # <<>>
\* C13: a message with an empty header.frame_id that passes the tolerance
\* test is transformed with fixed_frame_ as its source frame, whatever tf
\* can connect: no error is logged, and the message yields an arrow placed
\* in fixed_frame_ and becomes last_used_message_.
C13_EmptyFrameIsFixedFrame ==
    [][\A message \in Messages, connected \in BOOLEAN :
          (/\ message.frame_id = ""
           /\ call'.tf # "skipped"
           /\ Delivered(message, connected))
          => /\ call'.tf = "ok"
             /\ call'.errors = <<>>
             /\ call'.placed = <<[position |-> message.position,
                                  orientation |-> message.orientation,
                                  frame |-> fixed_frame_]>>
             /\ Len(arrows_') = Len(arrows_) + 1
             /\ last_used_message_' = <<message>>]_vars

\* a message with an empty header.frame_id has just produced an arrow
C13_Witness ==
    /\ last_used_message_ # <<>> /\ last_used_message_[1].frame_id = ""
    /\ call.tf = "ok" /\ call.errors = <<>> /\ call.placed # <<>>
\* C14: every call of incomingMessage() makes exactly one causeRender()
\* call, after processMessage() has returned, whether the message was
\* accepted, filtered out, or could not be transformed.
C14_OneRenderPerMessage ==
    [][\A message \in Messages, connected \in BOOLEAN :
          (call'.tf \in {"ok", "skipped", "failed"}
           /\ Delivered(message, connected))
          => call'.renders = <<Len(arrows_')>>]_vars

\* a message that tf could not transform has just been processed and
\* rendered
C14_Witness ==
    /\ call.tf = "failed" /\ Len(call.errors) = 1
    /\ call.renders = <<Len(arrows_)>> /\ arrows_ # <<>>
\* the handle of the newest arrow of a buffer, if there is one
Newest(buf) == IF buf = <<>> THEN {} ELSE {buf[Len(buf)].id}

\* arrows_ is empty exactly when there is no last used message
EmptyIffNoLast == (arrows_ = <<>>) <=> (last_used_message_ = <<>>)

\* C15: arrows_ is empty exactly when last_used_message_ is null, and
\* last_used_message_ is the message that produced the newest arrow: the
\* two are set together, by a step that pushes one arrow placed at the
\* pose of that message, and afterwards the newest arrow stays the same
\* one for as long as last_used_message_ stays.  update() never empties a
\* buffer that holds an arrow and never removes its newest arrow.
C15_LastMessageIsNewestArrow ==
    /\ EmptyIffNoLast
    /\ [][/\ EmptyIffNoLast'
          /\ (last_used_message_' # last_used_message_
               /\ last_used_message_' # <<>>)
             => /\ Len(arrows_') = Len(arrows_) + 1
                /\ SubSeq(arrows_', 1, Len(arrows_)) = arrows_
                /\ Newest(arrows_') \cap live = {}
                /\ Len(call'.placed) = 1
                /\ call'.placed[1].position
                      = last_used_message_'[1].position
                /\ call'.placed[1].orientation
                      = last_used_message_'[1].orientation
          /\ last_used_message_' = last_used_message_
             => Newest(arrows_') = Newest(arrows_)
          /\ (update /\ arrows_ # <<>>)
             => /\ arrows_' # <<>>
                /\ Newest(arrows_') = Newest(arrows_)
                /\ last_used_message_' = last_used_message_]_vars

\* update() has just trimmed arrows_ to its newest arrow
C15_Witness ==
    /\ keep_ = 1 /\ Len(arrows_) = 1 /\ call.destroyed # <<>>
    /\ last_used_message_ # <<>> /\ alive
\* the arrows allocated and not deleted are those of arrows_, each once
LiveAreBuffered ==
    /\ live = Range(Handles(arrows_))
    /\ Cardinality(live) = Len(arrows_)

\* C16: the arrows that were created and not yet deleted are exactly the
\* arrows of arrows_, and no arrow is twice in arrows_.  Each step deletes
\* exactly the arrows that leave arrows_ in it, each of them once, and each
\* of them allocated until then.
C16_ArrowsDeletedOnceOnLeaving ==
    /\ LiveAreBuffered
    /\ [][/\ LiveAreBuffered'
          /\ Range(call'.destroyed) \subseteq live
          /\ Cardinality(Range(call'.destroyed)) = Len(call'.destroyed)
          /\ Range(call'.destroyed)
               = Range(Handles(arrows_)) \ Range(Handles(arrows_'))
          /\ live' \ live \subseteq Range(Handles(arrows_'))]_vars

\* update() has just deleted the two oldest of three arrows
C16_Witness ==
    /\ Len(call.destroyed) = 2 /\ Len(arrows_) = 1
    /\ live = Newest(arrows_) /\ last_used_message_ # <<>>
\* a disabled display holds no arrow and no last used message
DisabledIsEmpty ==
    ~enabled_ => (arrows_ = <<>> /\ last_used_message_ = <<>>)

Configured ==
    \/ \E topic \in Topics : setTopic(topic)
    \/ \E color \in Colors : setColor(color)
    \/ \E tol \in PositionTolerances : setPositionTolerance(tol)
    \/ \E tol \in AngleTolerances : setAngleTolerance(tol)

\* C18: setTopic(), setColor(), setPositionTolerance() and
\* setAngleTolerance() leave the handles of arrows_, in their order, and
\* last_used_message_ as they are: none of them creates, deletes or places
\* an arrow, so the arrows of the old topic stay, the next message is
\* tested against the same last used message, and a changed tolerance
\* acts on later messages only.
C18_SettersKeepArrows ==
    [][Configured
       => /\ Handles(arrows_') = Handles(arrows_)
          /\ last_used_message_' = last_used_message_
          /\ live' = live
          /\ call'.destroyed = <<>> /\ call'.placed = <<>>]_vars

\* the topic has just been set on an enabled display that holds arrows
\* and a last used message
C18_Witness ==
    /\ sub_ = {"/odom"} /\ topic_ = "/odom"
    /\ arrows_ # <<>> /\ last_used_message_ # <<>>
    /\ call.tf = "none" /\ call.renders = <<Len(arrows_)>>
\* update() would find nothing to pop
Settled == keep_ = 0 \/ Len(arrows_) <= keep_

\* C19: update() changes arrows_ and nothing else of the display: the
\* last used message, the properties, the enabled flag, the subscription
\* and the fixed frame stay.  It changes nothing at all when keep_ is 0 or
\* arrows_ is no longer than keep_, and it always ends in such a state, so
\* that a second update() right after it changes nothing.
C19_UpdateOnlyTrims ==
    [][update
       => /\ UNCHANGED <<last_used_message_, config, enabled_, sub_,
                         fixed_frame_, visible_, appended>>
          /\ Settled => /\ arrows_' = arrows_ /\ live' = live
                        /\ evicted' = evicted
                        /\ call' = Emitted
          /\ Settled']_vars

\* update() has just popped one arrow and left two, and would now pop none
C19_Witness ==
    /\ keep_ = 2 /\ Len(arrows_) = 2
    /\ Len(call.destroyed) = 1 /\ evicted = 1
====
